---- MODULE Spec2Model ----
(***************************************************************************)
(* Model of the phased parallel workflow of src/workflow.py: the graph     *)
(* built by create_workflow (start -> three Phase 1 agents ->              *)
(* first_phase_join -> two Phase 2 agents -> second_phase_join ->          *)
(* summary_agent -> end), the node functions and the state they share.     *)
(*                                                                         *)
(* The Chinese string literals of the source are written here as ASCII     *)
(* stand-ins (the module language has no non-ASCII strings); each          *)
(* definition names the literal it stands for.                             *)
(***************************************************************************)
EXTENDS Integers, Sequences, FiniteSets, TLC

VARIABLES
    state,      \* the committed FuturesAnalysisState of the run
    pc,         \* the node or routing function the engine runs next
    tstatus,    \* per agent node: "idle", "sent", "returned", "committed"
    snapshot,   \* per agent node: the state it was invoked with
    outcome,    \* per agent node: "none", or how its underlying operation
                \* ended: "returned" or "raised"
    writes,     \* per agent node: what the node function returned
    runs,       \* per node: how many times it has been executed
    routed,     \* per router: the decision it took ("none" before)
    arrival,    \* the agent nodes of the current step, in the order they returned
    other       \* a second, suspended call of analyze_futures, if there is one

vars == <<state, pc, tstatus, snapshot, outcome, writes, runs, routed, arrival, other>>

----------------------------------------------------------------------------
(* Bounds and input sets *)

\* longest result["messages"] list an agent returns
MaxMsgs == 1

\* the execution counters stop counting here
MaxRuns == 2

\* msg.content values of the returned messages
MsgContents == {"", "r"}

\* str(e) of the exceptions an underlying operation raises
ExcMsgs == {"", "boom"}

\* (symbol, keyword) pairs given to analyze_futures
Requests == {<<"ss", "stainless">>, <<"cu", "copper">>}

RECURSIVE SeqsUpTo(_, _)
SeqsUpTo(S, n) ==
    IF n = 0 THEN {<<>>}
    ELSE LET shorter == SeqsUpTo(S, n - 1)
         IN  shorter \cup {Append(s, x) : s \in {q \in shorter : Len(q) = n - 1}, x \in S}

MsgLists == SeqsUpTo(MsgContents, MaxMsgs)

\* outcomes of one agent's underlying operation (get_model, create_*_agent,
\* agent.invoke): it raises Exception(e), or returns result["messages"]
AgentOutcomes ==
    {[raised |-> TRUE, e |-> e] : e \in ExcMsgs}
        \cup {[raised |-> FALSE, messages |-> m] : m \in MsgLists}

----------------------------------------------------------------------------
(* The graph *)

Phase1 == <<"news_agent", "sentiment_agent", "fundamental_agent">>
Phase2 == <<"bullish_agent", "bearish_agent">>
Phase3 == <<"summary_agent">>

Range(s) == {s[i] : i \in 1..Len(s)}

Tasks == Range(Phase1) \cup Range(Phase2)
AgentNodes == Tasks \cup Range(Phase3)
Nodes == AgentNodes \cup {"start", "first_phase_join", "second_phase_join", "end"}

END == "END"

\* mutant: analyze_sentiment returns its entry under the key of analyze_news
SlotOf_shared(t) ==
    CASE t = "news_agent" -> "news_result"
      [] t = "sentiment_agent" -> "news_result"
      [] t = "fundamental_agent" -> "fundamental_result"
      [] t = "bullish_agent" -> "bullish_result"
      [] t = "bearish_agent" -> "bearish_result"

\* the slot each Task writes
SlotOf(t) ==
    CASE t = "news_agent" -> "news_result"
      [] t = "sentiment_agent" -> "sentiment_result"
      [] t = "fundamental_agent" -> "fundamental_result"
      [] t = "bullish_agent" -> "bullish_result"
      [] t = "bearish_agent" -> "bearish_result"

Phase1Slots == {SlotOf(t) : t \in Range(Phase1)}
Phase2Slots == {SlotOf(t) : t \in Range(Phase2)}
Slots == Phase1Slots \cup Phase2Slots

\* the fields annotated with operator.add
AddFields == Slots \cup {"errors"}

----------------------------------------------------------------------------
(* Node functions *)

\* the "extract the agent's output" loop: content += msg.content + "\n" for
\* every message with a non-empty content
RECURSIVE ExtractContent(_)
ExtractContent(messages) ==
    IF messages = <<>> THEN ""
    ELSE LET msg == Head(messages)
         IN  (IF msg # "" THEN msg \o "\n" ELSE "") \o ExtractContent(Tail(messages))

\* f"...: {e}" prefixes of the strings appended to errors
ErrPrefix(t) ==
    CASE t = "news_agent" -> "news analysis error: "
      [] t = "sentiment_agent" -> "sentiment analysis error: "
      [] t = "fundamental_agent" -> "fundamental analysis error: "
      [] t = "bullish_agent" -> "bullish analysis error: "
      [] t = "bearish_agent" -> "bearish analysis error: "
      [] t = "summary_agent" -> "summary analysis error: "

\* f"...: {e}" prefix of the synthetic final_report
SummaryFailPrefix == "summary report generation failed: "

\* what a node function hands back to the engine: it returns an update, or an
\* exception leaves it
Returns(update) == [raised |-> FALSE, update |-> update]
Raises(e) == [raised |-> TRUE, e |-> e]

\* mutant: the Task function has no try/except
TaskBody_reraises(t, st, o) ==
    IF o.raised
    THEN Raises(o.e)
    ELSE Returns([k \in {SlotOf(t)} |->
                    <<[status |-> "success", content |-> ExtractContent(o.messages)]>>])

\* mutant: a failed operation is logged to errors but leaves no entry in the
\* Task's slot
TaskBody_no_failure_entry(t, st, o) ==
    IF o.raised
    THEN Returns([errors |-> <<ErrPrefix(t) \o o.e>>])
    ELSE Returns([k \in {SlotOf(t)} |->
                    <<[status |-> "success", content |-> ExtractContent(o.messages)]>>])

\* mutant: the failure entry also carries an (empty) content field
TaskBody_error_with_content(t, st, o) ==
    IF o.raised
    THEN Returns([k \in {SlotOf(t), "errors"} |->
                    IF k = "errors"
                    THEN <<ErrPrefix(t) \o o.e>>
                    ELSE <<[status |-> "error", error |-> o.e, content |-> ""]>>])
    ELSE Returns([k \in {SlotOf(t)} |->
                    <<[status |-> "success", content |-> ExtractContent(o.messages)]>>])

\* mutant: the except branch builds the failure entry but appends nothing to
\* errors
TaskBody_no_error_log(t, st, o) ==
    IF o.raised
    THEN Returns([k \in {SlotOf(t)} |-> <<[status |-> "error", error |-> o.e]>>])
    ELSE Returns([k \in {SlotOf(t)} |->
                    <<[status |-> "success", content |-> ExtractContent(o.messages)]>>])

\* the try/except shared by the five Task functions
TaskBody(t, st, o) ==
    IF o.raised
    THEN Returns([k \in {SlotOf(t), "errors"} |->
                    IF k = "errors" THEN <<ErrPrefix(t) \o o.e>>
                    ELSE <<[status |-> "error", error |-> o.e]>>])
    ELSE Returns([k \in {SlotOf(t)} |->
                    <<[status |-> "success", content |-> ExtractContent(o.messages)]>>])

\* mutant: analyze_news also returns the keyword it searched for
analyze_news_sets_keyword(st, o) ==
    LET r == TaskBody("news_agent", st, o)
    IN  Returns([k \in DOMAIN r.update \cup {"keyword"} |->
                   IF k = "keyword" THEN st.keyword ELSE r.update[k]])

analyze_news(st, o) == TaskBody("news_agent", st, o)
analyze_sentiment(st, o) == TaskBody("sentiment_agent", st, o)
analyze_fundamental(st, o) == TaskBody("fundamental_agent", st, o)

\* the "... analysis not completed" text a query shows for an empty
\* section
NotCompleted(t) ==
    CASE t = "news_agent" -> "news analysis not completed"
      [] t = "sentiment_agent" -> "sentiment analysis not completed"
      [] t = "fundamental_agent" -> "fundamental analysis not completed"
      [] t = "bullish_agent" -> "bullish analysis not completed"
      [] t = "bearish_agent" -> "bearish analysis not completed"

\* mutant: the Phase 2 Tasks read the newest entry of a slot
FirstPhaseContent_last_entry(st, t) ==
    LET slot == st[SlotOf(t)]
    IN  IF Len(slot) > 0
        THEN LET data == slot[Len(slot)]
             IN  IF data.status = "success"
                 THEN (IF "content" \in DOMAIN data THEN data.content ELSE "")
                 ELSE ""
        ELSE ""

\* news_content, sentiment_content, fundamental_content of analyze_bullish
\* and analyze_bearish: the content of the first entry of the slot when it
\* is a success, else empty
FirstPhaseContent(st, t) ==
    LET slot == st[SlotOf(t)]
    IN  IF Len(slot) > 0
        THEN LET data == slot[1]
             IN  IF data.status = "success"
                 THEN (IF "content" \in DOMAIN data THEN data.content ELSE "")
                 ELSE ""
        ELSE ""

\* the query of a Phase 2 Task: the subject and the three Phase 1 sections,
\* an empty one replaced
Phase2Query(st) ==
    [subject |-> <<st.keyword, st.symbol>>,
     sections |-> [t \in Range(Phase1) |->
                     IF FirstPhaseContent(st, t) # ""
                     THEN FirstPhaseContent(st, t) ELSE NotCompleted(t)]]

\* a Phase 2 Task: the query is built from the state and handed to the agent
\* (kept in the field `query`), the rest is the common body
Phase2Task(t, st, o) ==
    LET r == TaskBody(t, st, o)
    IN  IF o.raised THEN r
        ELSE [raised |-> FALSE, update |-> r.update, query |-> Phase2Query(st)]

analyze_bullish(st, o) == Phase2Task("bullish_agent", st, o)

\* mutant: analyze_bearish also returns a draft of the final report
analyze_bearish_drafts_report(st, o) ==
    LET r == TaskBody("bearish_agent", st, o)
    IN  Returns([k \in DOMAIN r.update \cup {"final_report"} |->
                   IF k = "final_report" THEN "" ELSE r.update[k]])

analyze_bearish(st, o) == Phase2Task("bearish_agent", st, o)

\* the default of data.get('error', ...)
UnknownError == "unknown error"

\* mutant: a failed sub-analysis contributes its bare error message
SectionContent_bare_error(st, t) ==
    LET slot == st[SlotOf(t)]
    IN  IF Len(slot) > 0
        THEN LET data == slot[1]
             IN  IF data.status = "success"
                 THEN (IF "content" \in DOMAIN data THEN data.content ELSE "")
                 ELSE (IF "error" \in DOMAIN data THEN data.error ELSE UnknownError)
        ELSE ""

\* news_content, ..., bearish_content of generate_summary: from the first
\* entry of the slot, its content on success, else the prefixed error
SectionContent(st, t) ==
    LET slot == st[SlotOf(t)]
    IN  IF Len(slot) > 0
        THEN LET data == slot[1]
             IN  IF data.status = "success"
                 THEN (IF "content" \in DOMAIN data THEN data.content ELSE "")
                 ELSE ErrPrefix(t) \o
                        (IF "error" \in DOMAIN data THEN data.error ELSE UnknownError)
        ELSE ""

\* summary_query: the subject and the five sections, an empty one replaced
SummaryQuery(st) ==
    [subject |-> <<st.keyword, st.symbol>>,
     sections |-> [t \in Tasks |->
                     IF SectionContent(st, t) # ""
                     THEN SectionContent(st, t) ELSE NotCompleted(t)]]

\* mutant: the except branch sets final_report but logs nothing to errors
generate_summary_no_error_log(st, o) ==
    IF o.raised
    THEN Returns([final_report |-> SummaryFailPrefix \o o.e])
    ELSE Returns([final_report |-> ExtractContent(o.messages)])

\* mutant: generate_summary also returns the path of the saved report
generate_summary_sets_report_path(st, o) ==
    IF o.raised
    THEN Returns([final_report |-> SummaryFailPrefix \o o.e,
                  errors |-> <<ErrPrefix("summary_agent") \o o.e>>])
    ELSE [raised |-> FALSE,
          update |-> [final_report |-> ExtractContent(o.messages),
                      report_path |-> "reports/summary.md"],
          query |-> SummaryQuery(st)]

\* the query is built and handed to the agent (kept in the field `query`);
\* the agent's messages become final_report
generate_summary(st, o) ==
    IF o.raised
    THEN Returns([final_report |-> SummaryFailPrefix \o o.e,
                  errors |-> <<ErrPrefix("summary_agent") \o o.e>>])
    ELSE [raised |-> FALSE,
          update |-> [final_report |-> ExtractContent(o.messages)],
          query |-> SummaryQuery(st)]

NodeFunction(t, st, o) ==
    CASE t = "news_agent" -> analyze_news(st, o)
      [] t = "sentiment_agent" -> analyze_sentiment(st, o)
      [] t = "fundamental_agent" -> analyze_fundamental(st, o)
      [] t = "bullish_agent" -> analyze_bullish(st, o)
      [] t = "bearish_agent" -> analyze_bearish(st, o)
      [] t = "summary_agent" -> generate_summary(st, o)

\* Send(node, arg)
Send(node, arg) == [node |-> node, arg |-> arg]

\* mutant: the first fan-out also sends to a Phase 2 node
dispatch_first_phase_eager(st) ==
    <<Send("news_agent", st), Send("sentiment_agent", st), Send("fundamental_agent", st),
      Send("bullish_agent", st)>>

\* mutant: the first dispatcher leaves out fundamental_agent
dispatch_first_phase_two_sends(st) ==
    <<Send("news_agent", st), Send("sentiment_agent", st)>>

dispatch_first_phase(st) ==
    <<Send("news_agent", st), Send("sentiment_agent", st), Send("fundamental_agent", st)>>

\* mutant: the join forgets one of the three slots
first_phase_join_two_slots(st) ==
    LET has_news == Len(st.news_result) > 0
        has_sentiment == Len(st.sentiment_result) > 0
    IN  [first_phase_ready |-> has_news /\ has_sentiment]

\* mutant: the first join only logs and returns no update
first_phase_join_logs_only(st) == [k \in {} |-> FALSE]

first_phase_join(st) ==
    LET has_news == Len(st.news_result) > 0
        has_sentiment == Len(st.sentiment_result) > 0
        has_fundamental == Len(st.fundamental_result) > 0
    IN  [first_phase_ready |-> has_news /\ has_sentiment /\ has_fundamental]

\* mutant: the router dispatches as soon as any slot is filled
route_and_dispatch_second_any(st) ==
    LET has_news == Len(st.news_result) > 0
        has_sentiment == Len(st.sentiment_result) > 0
        has_fundamental == Len(st.fundamental_result) > 0
    IN  IF has_news \/ has_sentiment \/ has_fundamental
        THEN <<Send("bullish_agent", st), Send("bearish_agent", st)>>
        ELSE END

\* mutant: the Send to bearish_agent carries the state without the Phase 1
\* results
route_and_dispatch_second_partial(st) ==
    LET has_news == Len(st.news_result) > 0
        has_sentiment == Len(st.sentiment_result) > 0
        has_fundamental == Len(st.fundamental_result) > 0
    IN  IF has_news /\ has_sentiment /\ has_fundamental
        THEN <<Send("bullish_agent", st),
               Send("bearish_agent", [st EXCEPT !.news_result = <<>>,
                                                !.sentiment_result = <<>>,
                                                !.fundamental_result = <<>>])>>
        ELSE END

\* mutant: on a true check the router sends to bullish_agent alone
route_and_dispatch_second_bullish_only(st) ==
    LET has_news == Len(st.news_result) > 0
        has_sentiment == Len(st.sentiment_result) > 0
        has_fundamental == Len(st.fundamental_result) > 0
    IN  IF has_news /\ has_sentiment /\ has_fundamental
        THEN <<Send("bullish_agent", st)>>
        ELSE END

route_and_dispatch_second(st) ==
    LET has_news == Len(st.news_result) > 0
        has_sentiment == Len(st.sentiment_result) > 0
        has_fundamental == Len(st.fundamental_result) > 0
    IN  IF has_news /\ has_sentiment /\ has_fundamental
        THEN <<Send("bullish_agent", st), Send("bearish_agent", st)>>
        ELSE END

\* mutant: the second join only logs and returns no update
second_phase_join_logs_only(st) == [k \in {} |-> FALSE]

\* mutant: the second join also writes the first flag, as false
second_phase_join_resets_first(st) ==
    LET has_bullish == Len(st.bullish_result) > 0
        has_bearish == Len(st.bearish_result) > 0
    IN  [first_phase_ready |-> FALSE, second_phase_ready |-> has_bullish /\ has_bearish]

second_phase_join(st) ==
    LET has_bullish == Len(st.bullish_result) > 0
        has_bearish == Len(st.bearish_result) > 0
    IN  [second_phase_ready |-> has_bullish /\ has_bearish]

\* mutant: the router counts only "success" entries
route_second_phase_success_only(st) ==
    LET has_bullish == Len(st.bullish_result) > 0 /\ st.bullish_result[1].status = "success"
        has_bearish == Len(st.bearish_result) > 0 /\ st.bearish_result[1].status = "success"
    IN  IF has_bullish /\ has_bearish THEN "summary" ELSE "wait"

route_second_phase(st) ==
    LET has_bullish == Len(st.bullish_result) > 0
        has_bearish == Len(st.bearish_result) > 0
    IN  IF has_bullish /\ has_bearish THEN "summary" ELSE "wait"

\* mutant: "wait" leads back to the join
Router2Target_waits(label) ==
    CASE label = "summary" -> "summary_agent"
      [] label = "wait" -> "second_phase_join"

\* mutant: "wait" leads to the end node
Router2Target_through_end(label) ==
    CASE label = "summary" -> "summary_agent"
      [] label = "wait" -> "end"

\* the path map of the conditional edge after second_phase_join
Router2Target(label) ==
    CASE label = "summary" -> "summary_agent"
      [] label = "wait" -> END

----------------------------------------------------------------------------
(* The engine *)

\* mutant: the sequence fields have no reducer, an update replaces them
Merge_overwrite(st, update) ==
    [k \in DOMAIN st |-> IF k \in DOMAIN update THEN update[k] ELSE st[k]]

\* commit of one update: operator.add fields concatenate, the others are
\* overwritten
Merge(st, update) ==
    [k \in DOMAIN st |->
        IF k \in DOMAIN update
        THEN IF k \in AddFields THEN st[k] \o update[k] ELSE update[k]
        ELSE st[k]]

\* commit of the updates of the nodes of one step, in the order of `order`
RECURSIVE MergeAll(_, _, _)
MergeAll(st, order, w) ==
    IF order = <<>> THEN st
    ELSE MergeAll(Merge(st, w[Head(order)].update), Tail(order), w)

\* the input analyze_futures gives app.invoke
InitialState(symbol, keyword) ==
    [symbol |-> symbol, keyword |-> keyword,
     news_result |-> <<>>, sentiment_result |-> <<>>, fundamental_result |-> <<>>,
     bullish_result |-> <<>>, bearish_result |-> <<>>,
     errors |-> <<>>,
     first_phase_ready |-> FALSE, second_phase_ready |-> FALSE,
     final_report |-> "", report_path |-> ""]

NoState == [none |-> TRUE]
NoWrites == [raised |-> FALSE, none |-> TRUE]

\* no second call of analyze_futures is in progress
NoRun == [id |-> 0]

Init ==
    /\ \E r \in Requests : state = InitialState(r[1], r[2])
    /\ pc = "start"
    /\ tstatus = [t \in AgentNodes |-> "idle"]
    /\ snapshot = [t \in AgentNodes |-> NoState]
    /\ outcome = [t \in AgentNodes |-> "none"]
    /\ writes = [t \in AgentNodes |-> NoWrites]
    /\ runs = [n \in Nodes |-> 0]
    /\ routed = [r \in 1..2 |-> "none"]
    /\ arrival = <<>>
    /\ other = NoRun

Ran(n) == runs' = [runs EXCEPT ![n] = IF @ < MaxRuns THEN @ + 1 ELSE @]

\* the engine queues the Sends of `sends`
Dispatch(sends) ==
    /\ tstatus' = [t \in AgentNodes |->
                     IF \E i \in 1..Len(sends) : sends[i].node = t THEN "sent"
                     ELSE tstatus[t]]
    /\ snapshot' = [t \in AgentNodes |->
                      IF \E i \in 1..Len(sends) : sends[i].node = t
                      THEN (CHOOSE s \in Range(sends) : s.node = t).arg
                      ELSE snapshot[t]]
    /\ arrival' = <<>>

\* mutant: start_analysis normalises the symbol and returns it
StartNode_rewrites_symbol ==
    /\ pc = "start"
    /\ pc' = "dispatch_first_phase"
    /\ state' = Merge(state, [symbol |-> "SS"])
    /\ Ran("start")
    /\ UNCHANGED <<tstatus, snapshot, outcome, writes, routed, arrival, other>>

\* node "start": start_analysis returns {}
StartNode ==
    /\ pc = "start"
    /\ pc' = "dispatch_first_phase"
    /\ Ran("start")
    /\ UNCHANGED <<state, tstatus, snapshot, outcome, writes, routed, arrival, other>>

\* the conditional edge after "start"
DispatchFirstPhase ==
    /\ pc = "dispatch_first_phase"
    /\ Dispatch(dispatch_first_phase(state))
    /\ pc' = "phase1"
    /\ UNCHANGED <<state, outcome, writes, runs, routed, other>>

\* the order in which the engine commits the updates of one step
CommitOrder == Phase1 \o Phase2 \o Phase3

InStep(t) == tstatus[t] \in {"sent", "returned"}

\* the nodes of the step the engine is in
StepNodes == SelectSeq(CommitOrder, InStep)

\* one agent node runs on its snapshot; its update is held until the step ends
RunTask(t) ==
    /\ pc \in {"phase1", "phase2", "summary"}
    /\ tstatus[t] = "sent"
    /\ \E o \in AgentOutcomes :
         /\ outcome' = [outcome EXCEPT ![t] = IF o.raised THEN "raised" ELSE "returned"]
         /\ writes' = [writes EXCEPT ![t] = NodeFunction(t, snapshot[t], o)]
    /\ tstatus' = [tstatus EXCEPT ![t] = "returned"]
    /\ Ran(t)
    /\ arrival' = Append(arrival, t)
    /\ UNCHANGED <<state, pc, snapshot, routed, other>>

\* mutant: the edges that leave the Phase 2 nodes lead to the first join
AfterStep_wrong_join ==
    CASE pc = "phase1" -> "first_phase_join"
      [] pc = "phase2" -> "first_phase_join"
      [] pc = "summary" -> "end"

AfterStep ==
    CASE pc = "phase1" -> "first_phase_join"
      [] pc = "phase2" -> "second_phase_join"
      [] pc = "summary" -> "end"

\* mutant: the step ends as soon as one node of it has returned (the join is
\* triggered per incoming edge)
ApplyWrites_first_return ==
    /\ pc \in {"phase1", "phase2", "summary"}
    /\ \E t \in Range(StepNodes) : tstatus[t] = "returned"
    /\ LET done == SelectSeq(StepNodes, LAMBDA t : tstatus[t] = "returned")
       IN  /\ state' = MergeAll(state, done, writes)
           /\ tstatus' = [t \in AgentNodes |->
                            IF t \in Range(done) THEN "committed" ELSE tstatus[t]]
    /\ pc' = AfterStep
    /\ UNCHANGED <<snapshot, outcome, writes, runs, routed, arrival, other>>

\* mutant: the updates of a step are committed in the order the nodes returned
ApplyWrites_arrival_order ==
    /\ pc \in {"phase1", "phase2", "summary"}
    /\ \A t \in Range(StepNodes) : tstatus[t] = "returned"
    /\ state' = MergeAll(state, arrival, writes)
    /\ tstatus' = [t \in AgentNodes |->
                     IF t \in Range(StepNodes) THEN "committed" ELSE tstatus[t]]
    /\ pc' = AfterStep
    /\ UNCHANGED <<snapshot, outcome, writes, runs, routed, arrival, other>>

\* the step ends when every node of it has returned: the updates are
\* committed and the nodes the static edges lead to are scheduled; an
\* exception that left a node function leaves app.invoke
ApplyWrites ==
    /\ pc \in {"phase1", "phase2", "summary"}
    /\ \A t \in Range(StepNodes) : tstatus[t] = "returned"
    /\ IF \E t \in Range(StepNodes) : writes[t].raised
       THEN /\ pc' = "FAULT"
            /\ UNCHANGED <<state, tstatus>>
       ELSE /\ state' = MergeAll(state, StepNodes, writes)
            /\ tstatus' = [t \in AgentNodes |->
                             IF t \in Range(StepNodes) THEN "committed" ELSE tstatus[t]]
            /\ pc' = AfterStep
    /\ UNCHANGED <<snapshot, outcome, writes, runs, routed, arrival, other>>

\* mutant: the join is executed once for each of its incoming edges
FirstPhaseJoinNode_per_edge ==
    /\ pc = "first_phase_join"
    /\ state' = Merge(state, first_phase_join(state))
    /\ pc' = IF runs["first_phase_join"] + 1 < Len(Phase1)
             THEN "first_phase_join"
             ELSE "route_and_dispatch_second"
    /\ Ran("first_phase_join")
    /\ UNCHANGED <<tstatus, snapshot, outcome, writes, routed, arrival, other>>

\* node "first_phase_join"
FirstPhaseJoinNode ==
    /\ pc = "first_phase_join"
    /\ state' = Merge(state, first_phase_join(state))
    /\ pc' = "route_and_dispatch_second"
    /\ Ran("first_phase_join")
    /\ UNCHANGED <<tstatus, snapshot, outcome, writes, routed, arrival, other>>

\* the conditional edge after "first_phase_join"
Router1 ==
    /\ pc = "route_and_dispatch_second"
    /\ LET r == route_and_dispatch_second(state)
       IN  IF r = END
           THEN /\ pc' = END
                /\ routed' = [routed EXCEPT ![1] = END]
                /\ UNCHANGED <<tstatus, snapshot, arrival, other>>
           ELSE /\ Dispatch(r)
                /\ pc' = "phase2"
                /\ routed' = [routed EXCEPT ![1] = "dispatch"]
    /\ UNCHANGED <<state, outcome, writes, runs, other>>

\* node "second_phase_join"
SecondPhaseJoinNode ==
    /\ pc = "second_phase_join"
    /\ state' = Merge(state, second_phase_join(state))
    /\ pc' = "route_second_phase"
    /\ Ran("second_phase_join")
    /\ UNCHANGED <<tstatus, snapshot, outcome, writes, routed, arrival, other>>

\* the conditional edge after "second_phase_join"
Router2 ==
    /\ pc = "route_second_phase"
    /\ LET target == Router2Target(route_second_phase(state))
       IN  IF target = END
           THEN /\ pc' = END
                /\ routed' = [routed EXCEPT ![2] = END]
                /\ UNCHANGED <<tstatus, snapshot, arrival, other>>
           ELSE /\ Dispatch(<<Send(target, state)>>)
                /\ pc' = IF target \in AgentNodes THEN "summary" ELSE target
                /\ routed' = [routed EXCEPT ![2] = "dispatch"]
    /\ UNCHANGED <<state, outcome, writes, runs, other>>

\* node "end": end_workflow returns {}; its edge leads nowhere, the run ends
EndNode ==
    /\ pc = "end"
    /\ pc' = END
    /\ Ran("end")
    /\ UNCHANGED <<state, tstatus, snapshot, outcome, writes, routed, arrival, other>>

Next ==
    \/ StartNode
    \/ DispatchFirstPhase
    \/ \E t \in AgentNodes : RunTask(t)
    \/ ApplyWrites
    \/ FirstPhaseJoinNode
    \/ Router1
    \/ SecondPhaseJoinNode
    \/ Router2
    \/ EndNode

Spec == Init /\ [][Next]_vars

----------------------------------------------------------------------------
(* The barriers and routers on arbitrary slot contents *)

okEntry == [status |-> "success", content |-> "r\n"]
errEntry == [status |-> "error", error |-> "boom"]

\* sample contents of one result slot
SampleSlots == {<<>>, <<okEntry>>, <<errEntry>>, <<okEntry, errEntry>>}

WithSlots(st, f) == [k \in DOMAIN st |-> IF k \in DOMAIN f THEN f[k] ELSE st[k]]

\* the engine about to run first_phase_join on the Phase 1 slots f
AtFirstJoin(r, f) ==
    /\ state = WithSlots(InitialState(r[1], r[2]), f)
    /\ pc = "first_phase_join"
    /\ tstatus = [t \in AgentNodes |-> IF t \in Range(Phase1) THEN "committed" ELSE "idle"]
    /\ snapshot = [t \in AgentNodes |->
                     IF t \in Range(Phase1) THEN InitialState(r[1], r[2]) ELSE NoState]
    /\ outcome = [t \in AgentNodes |-> "none"]
    /\ writes = [t \in AgentNodes |-> NoWrites]
    /\ runs = [n \in Nodes |-> IF n \in Range(Phase1) \cup {"start"} THEN 1 ELSE 0]
    /\ routed = [i \in 1..2 |-> "none"]
    /\ arrival = <<>>
    /\ other = NoRun

\* the engine about to run second_phase_join on the slots f
AtSecondJoin(r, f) ==
    /\ LET st == WithSlots(InitialState(r[1], r[2]), f)
       IN  state = Merge(st, first_phase_join(st))
    /\ pc = "second_phase_join"
    /\ tstatus = [t \in AgentNodes |-> IF t \in Tasks THEN "committed" ELSE "idle"]
    /\ snapshot = [t \in AgentNodes |->
                     IF t \in Tasks THEN InitialState(r[1], r[2]) ELSE NoState]
    /\ outcome = [t \in AgentNodes |-> "none"]
    /\ writes = [t \in AgentNodes |-> NoWrites]
    /\ runs = [n \in Nodes |->
                 IF n \in Tasks \cup {"start", "first_phase_join"} THEN 1 ELSE 0]
    /\ routed = [i \in 1..2 |-> IF i = 1 THEN "dispatch" ELSE "none"]
    /\ arrival = <<>>
    /\ other = NoRun

InitBarrier ==
    \/ Init
    \/ \E r \in Requests, f \in [Phase1Slots -> SampleSlots] : AtFirstJoin(r, f)
    \/ \E r \in Requests, f \in [Slots -> SampleSlots] : AtSecondJoin(r, f)

\* a run of the graph, or the graph continued from a barrier that finds
\* arbitrary slot contents
SpecBarrier == InitBarrier /\ [][Next]_vars

\* the engine runs every node it has scheduled, and every invocation returns
FairBarrier == SpecBarrier /\ WF_vars(Next)

\* The command-line entry (src/main.py) around a run of analyze_futures.
None == "<None>"

\* str.lower on the symbols of the command lines considered
Lower(s) ==
    CASE s = "SS" -> "ss"
      [] s = "Cu" -> "cu"
      [] OTHER -> s

\* FuturesAnalyzer(symbol).chinese_name: SYMBOL_TO_CHINESE.get(symbol, symbol)
\* on the lower-cased symbol
chinese_name(symbol) ==
    CASE Lower(symbol) = "ss" -> "stainless"
      [] Lower(symbol) = "cu" -> "copper"
      [] OTHER -> Lower(symbol)

\* the parsed command lines: --list-symbols, --symbol (absent or empty, or a
\* code in any case, known or not), --keyword (absent, empty or given)
CommandLines ==
    [list_symbols : BOOLEAN,
     symbol : {None, "", "SS", "cu", "xx"},
     keyword : {None, "", "copper"}]

InitMain ==
    /\ state \in CommandLines
    /\ pc = "main"
    /\ tstatus = [t \in AgentNodes |-> "idle"]
    /\ snapshot = [t \in AgentNodes |-> NoState]
    /\ outcome = [t \in AgentNodes |-> "none"]
    /\ writes = [t \in AgentNodes |-> NoWrites]
    /\ runs = [n \in Nodes |-> 0]
    /\ routed = [i \in 1..2 |-> "none"]
    /\ arrival = <<>>
    /\ other = NoRun

\* main up to the try: --list-symbols returns None (exit status 0), a missing
\* symbol ends in parser.error (exit status 2), else the symbol is lower-cased
MainParse ==
    /\ pc = "main"
    /\ IF state.list_symbols
       THEN pc' = "exit_0" /\ UNCHANGED state
       ELSE IF state.symbol \in {None, ""}
            THEN pc' = "exit_2" /\ UNCHANGED state
            ELSE /\ pc' = "analyze_futures"
                 /\ state' = [symbol |-> Lower(state.symbol), keyword |-> state.keyword]
    /\ UNCHANGED <<tstatus, snapshot, outcome, writes, runs, routed, arrival, other>>

\* mutant: the keyword is always the name mapped from the symbol
DefaultKeyword_always_mapped(symbol, keyword) == chinese_name(symbol)

\* the keyword analyze_futures works with: `if keyword is None` the
\* chinese_name of a FuturesAnalyzer made for the symbol, else the one given
DefaultKeyword(symbol, keyword) ==
    IF keyword = None THEN chinese_name(symbol) ELSE keyword

\* analyze_futures up to app.invoke: the keyword defaults to the symbol's
\* Chinese name; the import of the tools or create_workflow may raise
AnalyzeFutures ==
    /\ pc = "analyze_futures"
    /\ \E raises \in BOOLEAN :
         IF raises
         THEN pc' = "except" /\ UNCHANGED state
         ELSE /\ pc' = "start"
              /\ state' = InitialState(state.symbol,
                                       DefaultKeyword(state.symbol, state.keyword))
    /\ UNCHANGED <<tstatus, snapshot, outcome, writes, runs, routed, arrival, other>>

\* mutant: main returns 1 when the run collected errors
MainReturn_fails_on_errors ==
    /\ pc = END
    /\ pc' = IF state.errors # <<>> THEN "exit_1" ELSE "exit_0"
    /\ UNCHANGED <<state, tstatus, snapshot, outcome, writes, runs, routed, arrival, other>>

\* app.invoke has returned: main prints the summary and returns 0
MainReturn ==
    /\ pc = END
    /\ pc' = "exit_0"
    /\ UNCHANGED <<state, tstatus, snapshot, outcome, writes, runs, routed, arrival, other>>

\* except Exception: main prints the traceback and returns 1
MainExcept ==
    /\ pc = "except"
    /\ pc' = "exit_1"
    /\ UNCHANGED <<state, tstatus, snapshot, outcome, writes, runs, routed, arrival, other>>

NextMain ==
    \/ MainParse
    \/ AnalyzeFutures
    \/ Next
    \/ MainReturn
    \/ MainExcept

SpecMain == InitMain /\ [][NextMain]_vars

\* the status sys.exit(main()) ends the process with; -1 while it runs
ExitCode ==
    CASE pc = "exit_0" -> 0
      [] pc = "exit_1" -> 1
      [] pc = "exit_2" -> 2
      [] OTHER -> -1

\* Two concurrent calls of analyze_futures: the variables hold the call that
\* is running, `other` the call that is suspended.

\* the state a compiled graph starts a run from: compile() is given no
\* checkpointer, so app.invoke starts from its input alone
AppInvoke_checkpointed(input) == Merge(state, input)

AppInvoke(input) == input

\* the call that is running
Current ==
    [state |-> state, pc |-> pc, tstatus |-> tstatus, snapshot |-> snapshot,
     outcome |-> outcome, writes |-> writes, runs |-> runs, routed |-> routed,
     arrival |-> arrival]

ActiveId == IF other.id = 1 THEN 2 ELSE 1

\* a second call, for another symbol, arrives while the first is under way
InvokeSecond ==
    /\ other = NoRun
    /\ pc # END
    /\ \E r \in Requests :
         /\ r[1] # state.symbol
         /\ other' = [id |-> 2,
                      cfg |-> [state |-> AppInvoke(InitialState(r[1], r[2])),
                               pc |-> "start",
                               tstatus |-> [t \in AgentNodes |-> "idle"],
                               snapshot |-> [t \in AgentNodes |-> NoState],
                               outcome |-> [t \in AgentNodes |-> "none"],
                               writes |-> [t \in AgentNodes |-> NoWrites],
                               runs |-> [n \in Nodes |-> 0],
                               routed |-> [i \in 1..2 |-> "none"],
                               arrival |-> <<>>]]
    /\ UNCHANGED <<state, pc, tstatus, snapshot, outcome, writes, runs, routed, arrival>>

\* the scheduler suspends the running call and resumes the other
Switch ==
    /\ other # NoRun
    /\ state' = other.cfg.state
    /\ pc' = other.cfg.pc
    /\ tstatus' = other.cfg.tstatus
    /\ snapshot' = other.cfg.snapshot
    /\ outcome' = other.cfg.outcome
    /\ writes' = other.cfg.writes
    /\ runs' = other.cfg.runs
    /\ routed' = other.cfg.routed
    /\ arrival' = other.cfg.arrival
    /\ other' = [id |-> ActiveId, cfg |-> Current]

\* the agent outcomes considered with two calls: one answer and one
\* exception in the first call, the answer alone in the second
PlainEntry(e) ==
    \/ e.status = "success" /\ e.content = "r\n"
    \/ e.status = "error" /\ e.error = "boom"

PlainWrites ==
    /\ \A t \in Tasks :
          writes[t] # NoWrites => PlainEntry(writes[t].update[SlotOf(t)][1])
    /\ writes["summary_agent"] # NoWrites
          => writes["summary_agent"].update.final_report
                \in {"r\n", SummaryFailPrefix \o "boom"}
    /\ ActiveId = 2 => \A t \in AgentNodes : outcome[t] # "raised"

NextTwoRuns ==
    \/ Next /\ PlainWrites'
    \/ InvokeSecond
    \/ Switch

SpecTwoRuns == Init /\ [][NextTwoRuns]_vars

(***************************************************************************)
(* The tools the agents call: src/tools/futures_analyzer.py,               *)
(* src/tools/file_saver.py and src/tools/web_search.py.  A call either     *)
(* returns a value or ends in an exception; what the surroundings do (the  *)
(* two market-data sources, the file system, the search backend) is an     *)
(* input of the call.                                                      *)
(***************************************************************************)

\* what one upstream market-data call does: it raises, or returns a frame
\* with or without rows
Upstream == {"raises", "rows", "empty"}

\* the frame a source returned
Frame(source, got) == source \o ":" \o got

IsEmptyFrame(data) == data \in {Frame("sina", "empty"), Frame("em", "empty")}

\* what a call of a tool or of a method came to
Returned(value, fetched) == [raised |-> FALSE, value |-> value, fetched |-> fetched]

Raised(error, fetched) == [raised |-> TRUE, value |-> error, fetched |-> fetched]

\* FuturesAnalyzer.__init__: no lookup of the symbol, the cache starts unset
FuturesAnalyzer(symbol) ==
    [symbol |-> Lower(symbol), chinese_name |-> chinese_name(symbol),
     data_cache |-> None]

\* the message of the ValueError of get_recent_30_days
NoDataError(self) == "no data for " \o self.symbol

\* mutant: the cache is filled but never read
get_recent_30_days_ignores_cache(self, use_cache, sina, em) ==
    IF sina # "raises"
    THEN [self |-> [self EXCEPT !.data_cache = Frame("sina", sina)],
          res |-> Returned(Frame("sina", sina), <<"sina">>)]
    ELSE IF em # "raises"
         THEN [self |-> [self EXCEPT !.data_cache = Frame("em", em)],
               res |-> Returned(Frame("em", em), <<"sina", "em">>)]
         ELSE [self |-> self,
               res |-> Raised(NoDataError(self), <<"sina", "em">>)]

\* FuturesAnalyzer.get_recent_30_days: the cached frame if there is one and
\* it is asked for, else the primary source, else the fallback source, else
\* a ValueError; a frame that was fetched is cached.  fetched lists the
\* sources that were asked, in order.
get_recent_30_days(self, use_cache, sina, em) ==
    IF use_cache /\ self.data_cache # None
    THEN [self |-> self, res |-> Returned(self.data_cache, <<>>)]
    ELSE IF sina # "raises"
         THEN [self |-> [self EXCEPT !.data_cache = Frame("sina", sina)],
               res |-> Returned(Frame("sina", sina), <<"sina">>)]
         ELSE IF em # "raises"
              THEN [self |-> [self EXCEPT !.data_cache = Frame("em", em)],
                    res |-> Returned(Frame("em", em), <<"sina", "em">>)]
              ELSE [self |-> self,
                    res |-> Raised(NoDataError(self), <<"sina", "em">>)]

\* FuturesAnalyzer.get_key_indicators: the indicators of the frame, or the
\* "no data" dictionary for a frame without rows
get_key_indicators(self, sina, em) ==
    LET r == get_recent_30_days(self, TRUE, sina, em)
    IN  IF r.res.raised THEN r
        ELSE IF IsEmptyFrame(r.res.value)
             THEN [r EXCEPT !.res.value = "error: no data"]
             ELSE [r EXCEPT !.res.value = "indicators of " \o r.res.value]

\* json.dumps of a dictionary
JsonDumps(dict) == "{" \o dict \o "}"

\* FuturesAnalyzer.to_json
to_json(self, sina, em) ==
    LET r == get_key_indicators(self, sina, em)
    IN  IF r.res.raised THEN r
        ELSE [r EXCEPT !.res.value = JsonDumps(r.res.value)]

\* analyze_futures_data, the tool of the fundamental agent: a new analyzer
\* each call, and every exception is turned into a returned JSON string
analyze_futures_data(symbol, sina, em) ==
    LET r == to_json(FuturesAnalyzer(symbol), sina, em).res
    IN  IF r.raised
        THEN Returned(JsonDumps("error: " \o r.value), r.fetched)
        ELSE r

\* the six save_*_to_markdown tools and the prefix of their file names
Savers == {"news", "sentiment", "fundamental", "summary", "bullish", "bearish"}

\* what a file-system call does
FsCall == {"ok", "raises"}

\* the same tool with the directory made before the try statement
save_to_markdown_unguarded_dir(kind, name, makedirs, write) ==
    IF makedirs = "raises" THEN Raised("OSError: makedirs", <<>>)
    ELSE IF write = "raises"
         THEN Returned("save failed: " \o kind \o ": OSError: open", <<>>)
         ELSE Returned("saved: " \o kind \o "_" \o name \o ".md", <<>>)

\* save_<kind>_to_markdown: _ensure_reports_dir, open and write all run
\* inside the try, and except Exception returns the failure text
save_to_markdown(kind, name, makedirs, write) ==
    IF makedirs = "raises"
    THEN Returned("save failed: " \o kind \o ": OSError: makedirs", <<>>)
    ELSE IF write = "raises"
         THEN Returned("save failed: " \o kind \o ": OSError: open", <<>>)
         ELSE Returned("saved: " \o kind \o "_" \o name \o ".md", <<>>)

\* what the search backend does once it is called: the client or the request
\* raises, or the response has no content, or it has some
Backend == {"raises", "no_content", "content"}

\* the values of the ZHIPU_API_KEY environment variable
ApiKeys == {None, "", "key"}

\* the same tool with the backend called outside the try statement
web_search_unguarded(query, HAS_ZHIPUAI, api_key, backend) ==
    IF ~HAS_ZHIPUAI THEN Returned("mock results: " \o query, <<>>)
    ELSE IF api_key \in {None, ""} THEN Returned("error: no ZHIPU_API_KEY", <<>>)
    ELSE IF backend = "raises" THEN Raised("backend", <<>>)
    ELSE IF backend = "no_content" THEN Returned("no results found", <<>>)
    ELSE Returned("results: " \o query, <<>>)

\* web_search: mock results without the package, an error text without the
\* key, else the backend's content, "no results" or the text of its exception
web_search(query, HAS_ZHIPUAI, api_key, backend) ==
    IF ~HAS_ZHIPUAI THEN Returned("mock results: " \o query, <<>>)
    ELSE IF api_key \in {None, ""} THEN Returned("error: no ZHIPU_API_KEY", <<>>)
    ELSE IF backend = "raises" THEN Returned("search error: backend", <<>>)
    ELSE IF backend = "no_content" THEN Returned("no results found", <<>>)
    ELSE Returned("results: " \o query, <<>>)

\* the symbols and queries the tools are called with
ToolSymbols == {"SS", "cu", "xx"}

Queries == {"copper news"}

\* no analyzer constructed yet
NoAnalyzer == [symbol |-> None, chinese_name |-> None, data_cache |-> None]

NoCall == [op |-> "none", args |-> <<>>, res |-> Returned("", <<>>)]

\* state holds the analyzer a caller works with, the cache it had before the
\* last call, whether a fetch on this analyzer has succeeded so far, and the
\* last call with its arguments and what it came to
InitTools ==
    /\ state = [analyzer |-> NoAnalyzer, before |-> None, fetch_ok |-> FALSE,
                last |-> NoCall]
    /\ pc = "tools"
    /\ tstatus = [t \in AgentNodes |-> "idle"]
    /\ snapshot = [t \in AgentNodes |-> NoState]
    /\ outcome = [t \in AgentNodes |-> "none"]
    /\ writes = [t \in AgentNodes |-> NoWrites]
    /\ runs = [n \in Nodes |-> 0]
    /\ routed = [i \in 1..2 |-> "none"]
    /\ arrival = <<>>
    /\ other = NoRun

ToolsFrame == UNCHANGED <<pc, tstatus, snapshot, outcome, writes, runs, routed, arrival, other>>

\* analyzer = FuturesAnalyzer(symbol)
NewAnalyzer ==
    /\ pc = "tools"
    /\ \E symbol \in ToolSymbols :
         state' = [analyzer |-> FuturesAnalyzer(symbol), before |-> None,
                   fetch_ok |-> FALSE,
                   last |-> [op |-> "FuturesAnalyzer", args |-> <<symbol>>,
                             res |-> Returned("", <<>>)]]
    /\ ToolsFrame

\* analyzer.get_recent_30_days(use_cache)
CallGetRecent30Days ==
    /\ pc = "tools"
    /\ state.analyzer # NoAnalyzer
    /\ \E use_cache \in BOOLEAN, sina \in Upstream, em \in Upstream :
         LET r == get_recent_30_days(state.analyzer, use_cache, sina, em)
         IN  state' = [analyzer |-> r.self,
                       before |-> state.analyzer.data_cache,
                       fetch_ok |-> state.fetch_ok
                                      \/ (r.res.fetched # <<>> /\ ~r.res.raised),
                       last |-> [op |-> "get_recent_30_days",
                                 args |-> <<use_cache, sina, em>>,
                                 res |-> r.res]]
    /\ ToolsFrame

\* the fundamental agent calls analyze_futures_data(symbol)
CallAnalyzeFuturesData ==
    /\ pc = "tools"
    /\ \E symbol \in ToolSymbols, sina \in Upstream, em \in Upstream :
         state' = [state EXCEPT
                     !.last = [op |-> "analyze_futures_data",
                               args |-> <<symbol, sina, em>>,
                               res |-> analyze_futures_data(symbol, sina, em)]]
    /\ ToolsFrame

\* an agent calls one of the save_*_to_markdown tools
CallSave ==
    /\ pc = "tools"
    /\ \E kind \in Savers, name \in ToolSymbols, makedirs \in FsCall, write \in FsCall :
         state' = [state EXCEPT
                     !.last = [op |-> "save_to_markdown",
                               args |-> <<kind, name, makedirs, write>>,
                               res |-> save_to_markdown(kind, name, makedirs, write)]]
    /\ ToolsFrame

\* an agent calls web_search(query)
CallWebSearch ==
    /\ pc = "tools"
    /\ \E query \in Queries, has \in BOOLEAN, api_key \in ApiKeys, backend \in Backend :
         state' = [state EXCEPT
                     !.last = [op |-> "web_search",
                               args |-> <<query, has, api_key, backend>>,
                               res |-> web_search(query, has, api_key, backend)]]
    /\ ToolsFrame

NextTools ==
    \/ NewAnalyzer
    \/ CallGetRecent30Days
    \/ CallAnalyzeFuturesData
    \/ CallSave
    \/ CallWebSearch

SpecTools == InitTools /\ [][NextTools]_vars

\* The reducer on its own: Task completions are committed one at a time, on
\* the state the earlier ones left, several times for the same slot.
MaxCommits == 3

InitReducer ==
    /\ \E r \in Requests : state = InitialState(r[1], r[2])
    /\ pc = "reducer"
    /\ tstatus = [t \in AgentNodes |-> "idle"]
    /\ snapshot = [t \in AgentNodes |-> NoState]
    /\ outcome = [t \in AgentNodes |-> "none"]
    /\ writes = [t \in AgentNodes |-> NoWrites]
    /\ runs = [n \in Nodes |-> 0]
    /\ routed = [i \in 1..2 |-> "none"]
    /\ arrival = <<>>
    /\ other = NoRun

RECURSIVE SumRuns(_)
SumRuns(ts) ==
    IF ts = <<>> THEN 0 ELSE runs[Head(ts)] + SumRuns(Tail(ts))

\* one completion of Task t is committed
CommitTask(t) ==
    /\ pc = "reducer"
    /\ runs[t] < MaxRuns
    /\ SumRuns(Phase1 \o Phase2) < MaxCommits
    /\ \E o \in AgentOutcomes :
         LET w == NodeFunction(t, state, o)
         IN  /\ ~w.raised
             /\ writes' = [writes EXCEPT ![t] = w]
             /\ state' = Merge(state, w.update)
    /\ runs' = [runs EXCEPT ![t] = @ + 1]
    /\ UNCHANGED <<pc, tstatus, snapshot, outcome, routed, arrival, other>>

NextReducer == \E t \in Tasks : CommitTask(t)

SpecReducer == InitReducer /\ [][NextReducer]_vars

----------------------------------------------------------------------------
(* Claims *)

NonEmpty(st, slots) == \A k \in slots : Len(st[k]) > 0

\* C1: in the state right after first_phase_join has run, first_phase_ready
\* is true iff the three Phase 1 slots are all non-empty; right after
\* second_phase_join has run, second_phase_ready is true iff the two Phase 2
\* slots are both non-empty.
C1_BarrierInvariant ==
    /\ pc = "route_and_dispatch_second"
          => (state.first_phase_ready <=> NonEmpty(state, Phase1Slots))
    /\ pc = "route_second_phase"
          => (state.second_phase_ready <=> NonEmpty(state, Phase2Slots))

\* a barrier has just found one slot filled and another one empty
C1_Witness ==
    /\ pc = "route_and_dispatch_second"
    /\ ~state.first_phase_ready
    /\ Len(state.news_result) > 0
    /\ Len(state.sentiment_result) > 0
    /\ Len(state.fundamental_result) = 0

\* C2: a router that finds the flag its barrier wrote false routes to END and
\* sends to no node.
C2_FailOpenRouting ==
    [][/\ (pc = "route_and_dispatch_second" /\ ~state.first_phase_ready)
            => (pc' = END /\ tstatus' = tstatus)
       /\ (pc = "route_second_phase" /\ ~state.second_phase_ready)
            => (pc' = END /\ tstatus' = tstatus)]_vars

\* router 1 has taken the fail-open branch with some slot filled
C2_Witness ==
    /\ pc = END
    /\ routed[1] = END
    /\ ~state.first_phase_ready
    /\ Len(state.news_result) > 0

\* C3: a Phase 2 Task is sent or run only after first_phase_join has run and
\* found Phase 1 ready, summary_agent only after second_phase_join has run and
\* found Phase 2 ready.
C3_PhaseOrdering ==
    /\ \A t \in Range(Phase2) :
          tstatus[t] # "idle"
             => /\ runs["first_phase_join"] >= 1
                /\ routed[1] = "dispatch"
                /\ snapshot[t].first_phase_ready
    /\ tstatus["summary_agent"] # "idle"
          => /\ runs["second_phase_join"] >= 1
             /\ routed[2] = "dispatch"
             /\ snapshot["summary_agent"].second_phase_ready

\* one Phase 2 Task has returned while the other has not started
C3_Witness ==
    /\ tstatus["bullish_agent"] = "returned"
    /\ tstatus["bearish_agent"] = "sent"

\* the update of Task t is part of the committed state
Committed(t) ==
    /\ tstatus[t] = "committed"
    /\ state[SlotOf(t)] = snapshot[t][SlotOf(t)] \o writes[t].update[SlotOf(t)]

\* C4: a barrier is evaluated only when every Task of its Phase has returned
\* and its update is committed, in whatever order the Tasks ran.
C4_BarrierSynchronization ==
    /\ (pc = "first_phase_join" \/ runs["first_phase_join"] > 0)
          => \A t \in Range(Phase1) : Committed(t)
    /\ (pc = "second_phase_join" \/ runs["second_phase_join"] > 0)
          => \A t \in Range(Phase2) : Committed(t)

\* the second barrier is about to be evaluated after a failed Task
C4_Witness ==
    /\ pc = "second_phase_join"
    /\ outcome["bullish_agent"] = "raised"
    /\ outcome["bearish_agent"] = "returned"

\* C5: at every evaluation of a barrier in a run the readiness check is true;
\* no router takes its not-ready branch, whatever the Tasks' outcomes.
C5_ReadinessAlwaysTrue ==
    /\ pc = "route_and_dispatch_second"
          => state.first_phase_ready /\ route_and_dispatch_second(state) # END
    /\ pc = "route_second_phase"
          => state.second_phase_ready /\ route_second_phase(state) # "wait"
    /\ routed[1] # END
    /\ routed[2] # END

\* the second barrier has been evaluated after all five Tasks failed
C5_Witness ==
    /\ pc = "route_second_phase"
    /\ \A t \in Tasks : outcome[t] = "raised"

\* C6: in every run that reaches END through summary_agent, final_report is a
\* non-empty string, whatever the aggregation operation returned or raised.
C6_FinalReportAlwaysSet ==
    (pc = END /\ runs["summary_agent"] > 0) => state.final_report # ""

\* C7: when the operation of a Task raises, the Task function returns an
\* update of exactly one "error" entry for its own slot and one string for
\* errors; no exception leaves the Task, and the update is committed.
C7_TaskFailureContainment ==
    /\ pc # "FAULT"
    /\ \A t \in Tasks :
          outcome[t] = "raised"
             => /\ ~writes[t].raised
                /\ DOMAIN writes[t].update = {SlotOf(t), "errors"}
                /\ Len(writes[t].update[SlotOf(t)]) = 1
                /\ writes[t].update[SlotOf(t)][1].status = "error"
                /\ Len(writes[t].update.errors) = 1
                /\ tstatus[t] = "committed"
                      => /\ Len(state[SlotOf(t)]) = Len(snapshot[t][SlotOf(t)]) + 1
                         /\ state[SlotOf(t)][Len(state[SlotOf(t)])].status = "error"
                         /\ \E i \in 1..Len(state.errors) :
                               state.errors[i] = writes[t].update.errors[1]

\* Phase 2 runs after a Phase 1 Task failed
C7_Witness ==
    /\ pc = "phase2"
    /\ outcome["news_agent"] = "raised"
    /\ tstatus["news_agent"] = "committed"
    /\ Len(state.errors) = 1

\* C8: whatever the success/failure outcomes of the five Tasks, both barriers
\* pass, Phase 2 is dispatched and summary_agent runs.
C8_FailedTaskCountsAsComplete ==
    /\ routed[1] # "none"
          => /\ routed[1] = "dispatch"
             /\ \A t \in Range(Phase2) : tstatus[t] # "idle"
    /\ routed[2] # "none"
          => /\ routed[2] = "dispatch"
             /\ tstatus["summary_agent"] # "idle"
    /\ pc = END
          => /\ runs["summary_agent"] = 1
             /\ state.first_phase_ready
             /\ state.second_phase_ready

\* the run has ended after all five Tasks failed
C8_Witness ==
    /\ pc = END
    /\ \A t \in Tasks : outcome[t] = "raised"
    /\ runs["summary_agent"] = 1

\* C9: when the aggregation operation raises, final_report is the synthetic
\* failure string, one aggregation-failure message is appended to errors, the
\* result slots are unchanged, and the run goes on through "end" to END.
C9_AggregationFailureAbsorbed ==
    outcome["summary_agent"] = "raised"
       => /\ pc # "FAULT"
          /\ ~writes["summary_agent"].raised
          /\ tstatus["summary_agent"] = "committed"
                => /\ \E e \in ExcMsgs :
                         /\ state.final_report = SummaryFailPrefix \o e
                         /\ state.errors = snapshot["summary_agent"].errors
                                               \o <<ErrPrefix("summary_agent") \o e>>
                   /\ \A k \in Slots : state[k] = snapshot["summary_agent"][k]
                   /\ pc \in {"end", END}
                   /\ pc = END => runs["end"] = 1

\* the run has ended after the aggregation operation raised
C9_Witness ==
    /\ pc = END
    /\ outcome["summary_agent"] = "raised"
    /\ runs["end"] = 1

\* C10: every run reaches END, also from a barrier whose readiness check is
\* false; until then some transition is enabled.
C10_Termination ==
    /\ [](pc # END => ENABLED <<Next>>_vars)
    /\ <>(pc = END)

\* the run has ended at the second barrier, whose check was false
C10_Witness ==
    /\ pc = END
    /\ routed[2] = END
    /\ ~state.second_phase_ready

\* the orchestrator state a position of the graph stands for: a router that
\* is about to dispatch is in the dispatch state, a router about to give up
\* is still at its barrier; the end node belongs to the aggregation's tail
OrchState ==
    CASE pc = "start" -> "START"
      [] pc = "dispatch_first_phase" -> "PHASE1_DISPATCH"
      [] pc = "phase1" -> "PHASE1_RUNNING"
      [] pc = "first_phase_join" -> "PHASE1_JOIN"
      [] pc = "route_and_dispatch_second" ->
            IF route_and_dispatch_second(state) = END
            THEN "PHASE1_JOIN" ELSE "PHASE2_DISPATCH"
      [] pc = "phase2" -> "PHASE2_RUNNING"
      [] pc = "second_phase_join" -> "PHASE2_JOIN"
      [] pc = "route_second_phase" ->
            IF Router2Target(route_second_phase(state)) = END
            THEN "PHASE2_JOIN" ELSE "AGGREGATE"
      [] pc \in {"summary", "end"} -> "AGGREGATE_RUNNING"
      [] pc = END -> "END"
      [] OTHER -> "FAULT"

OrchTransitions ==
    { <<"START", "PHASE1_DISPATCH">>,
      <<"PHASE1_DISPATCH", "PHASE1_RUNNING">>,
      <<"PHASE1_RUNNING", "PHASE1_JOIN">>,
      <<"PHASE1_JOIN", "PHASE2_DISPATCH">>,
      <<"PHASE1_JOIN", "END">>,
      <<"PHASE2_DISPATCH", "PHASE2_RUNNING">>,
      <<"PHASE2_RUNNING", "PHASE2_JOIN">>,
      <<"PHASE2_JOIN", "AGGREGATE">>,
      <<"PHASE2_JOIN", "END">>,
      <<"AGGREGATE", "AGGREGATE_RUNNING">>,
      <<"AGGREGATE_RUNNING", "END">> }

\* C11: every step of the orchestrator either stays in its state or takes one
\* of the listed transitions; no node of the graph runs twice, so no state is
\* entered again; no step leaves END.
C11_StateSequence ==
    [][ /\ OrchState' # OrchState => <<OrchState, OrchState'>> \in OrchTransitions
        /\ \A n \in Nodes : runs'[n] <= 1
        /\ pc # END ]_vars

\* a run that went through both dispatches and the end node to END
C11_Witness ==
    /\ pc = END
    /\ routed[1] = "dispatch"
    /\ routed[2] = "dispatch"
    /\ runs["summary_agent"] = 1
    /\ runs["end"] = 1

IsPrefix(s, t) == Len(s) <= Len(t) /\ SubSeq(t, 1, Len(s)) = s

\* C12: a commit leaves the old value of every sequence field as a prefix of
\* the new one, and after N committed completions of a Task its slot holds N
\* entries, the last of them the entry of the latest completion.
C12_AppendOnlyMerge ==
    [][ /\ \A k \in AddFields : IsPrefix(state[k], state'[k])
        /\ \A t \in Tasks :
             /\ Len(state'[SlotOf(t)]) = runs'[t]
             /\ runs'[t] # runs[t]
                  => state'[SlotOf(t)]
                       = state[SlotOf(t)] \o writes'[t].update[SlotOf(t)] ]_vars

\* two completions of one Task are committed, the second a failure: both
\* entries and the error string are there
C12_Witness ==
    /\ pc = "reducer"
    /\ runs["news_agent"] = 2
    /\ Len(state.news_result) = 2
    /\ state.news_result[1].status = "success"
    /\ state.news_result[2].status = "error"
    /\ Len(state.errors) = 1

\* the fields of SharedState the update returned by Task t writes
Written(t) ==
    IF tstatus[t] \in {"returned", "committed"} /\ ~writes[t].raised
    THEN DOMAIN writes[t].update
    ELSE {}

SamePhase(t, u) ==
    \/ {t, u} \subseteq Range(Phase1)
    \/ {t, u} \subseteq Range(Phase2)

\* C13 as stated: the fields written by two Tasks of one Phase are disjoint.
\* Two failing Tasks of a Phase both write errors.
C13_DisjointOwnership ==
    \A t, u \in Tasks :
        t # u /\ SamePhase(t, u) => Written(t) \cap Written(u) = {}

\* C13 amended: a Task writes no result slot but its own, so the result
\* slots written by two Tasks of one Phase are disjoint; the one field two
\* Tasks of a Phase can both write is errors, which a Task writes exactly
\* when its operation failed.
C13_DisjointResultSlots ==
    \A t \in Tasks :
        /\ Written(t) \cap Slots \subseteq {SlotOf(t)}
        /\ Written(t) # {} => ("errors" \in Written(t) <=> outcome[t] = "raised")
        /\ \A u \in Tasks :
              t # u /\ SamePhase(t, u)
                 => /\ Written(t) \cap Written(u) \subseteq {"errors"}
                    /\ Written(t) \cap Written(u) \cap Slots = {}

\* two Tasks of Phase 1 have failed: both updates write errors, and each its
\* own slot
C13_Witness ==
    /\ outcome["news_agent"] = "raised"
    /\ outcome["sentiment_agent"] = "raised"
    /\ Written("news_agent") = {"news_result", "errors"}
    /\ Written("sentiment_agent") = {"sentiment_result", "errors"}

\* the strings the update of Task t appends to errors
ErrorsOf(t) == IF "errors" \in Written(t) THEN writes[t].update.errors ELSE <<>>

RECURSIVE ErrorsOfAll(_)
ErrorsOfAll(ts) ==
    IF ts = <<>> THEN <<>> ELSE ErrorsOf(Head(ts)) \o ErrorsOfAll(Tail(ts))

\* the state a Phase leaves, as a function of the state at its dispatch and
\* of the outcomes of its Tasks alone
PhaseResult(base, phase) ==
    [k \in DOMAIN base |->
        IF k = "errors" THEN base.errors \o ErrorsOfAll(phase)
        ELSE IF \E t \in Range(phase) : SlotOf(t) = k
             THEN LET t == CHOOSE u \in Range(phase) : SlotOf(u) = k
                  IN  base[k] \o writes[t].update[k]
             ELSE base[k]]

Invoked(t) == tstatus[t] # "idle"

\* C15: the Tasks of a Phase are invoked with one and the same state, the one
\* at dispatch, which stays the committed state while the Phase runs; it holds
\* no entry and no error of a Task of that Phase, and for Phase 2 it holds the
\* committed entry of each Phase 1 Task and the Phase 1 errors.
C15_SnapshotIsolation ==
    /\ \A t, u \in Tasks :
          SamePhase(t, u) /\ Invoked(t) /\ Invoked(u) => snapshot[t] = snapshot[u]
    /\ \A t \in Tasks :
          pc \in {"phase1", "phase2"} /\ InStep(t) => snapshot[t] = state
    /\ \A t \in Range(Phase1) :
          Invoked(t) => \A k \in AddFields : snapshot[t][k] = <<>>
    /\ \A t \in Range(Phase2) :
          Invoked(t)
             => /\ \A k \in Phase2Slots : snapshot[t][k] = <<>>
                /\ \A u \in Range(Phase1) :
                      snapshot[t][SlotOf(u)] = writes[u].update[SlotOf(u)]
                /\ snapshot[t].errors = ErrorsOfAll(Phase1)

\* bearish_agent has run after bullish_agent returned a failure: its state
\* shows the failed Phase 1 entry, and nothing of bullish_agent
C15_Witness ==
    /\ arrival = <<"bullish_agent", "bearish_agent">>
    /\ outcome["bullish_agent"] = "raised"
    /\ outcome["news_agent"] = "raised"
    /\ snapshot["bearish_agent"].news_result[1].status = "error"
    /\ snapshot["bearish_agent"].bullish_result = <<>>
    /\ Len(snapshot["bearish_agent"].errors) = 1

\* the Sends of a dispatcher: one for each Task of the Phase, and no other
OneSendEach(sends, phase) ==
    /\ Len(sends) = Len(phase)
    /\ {sends[i].node : i \in 1..Len(sends)} = Range(phase)

\* C16: a dispatcher returns one Send for each Task of its Phase; while a
\* Phase runs, exactly the Tasks of that Phase have been issued one
\* invocation each and no Task is ever invoked twice; when the run has
\* ended through the aggregation, each of the five Tasks was invoked once and
\* each of the five result slots holds one entry.
C16_ExactlyOnce ==
    /\ \A t \in Tasks : runs[t] <= 1
    /\ pc = "dispatch_first_phase" => OneSendEach(dispatch_first_phase(state), Phase1)
    /\ pc = "route_and_dispatch_second"
          => OneSendEach(route_and_dispatch_second(state), Phase2)
    /\ pc = "phase1"
          => /\ \A t \in Range(Phase1) : InStep(t)
             /\ \A t \in Range(Phase2) : ~Invoked(t)
    /\ pc = "phase2"
          => /\ \A t \in Range(Phase2) : InStep(t)
             /\ \A t \in Range(Phase1) : tstatus[t] = "committed" /\ runs[t] = 1
    /\ pc = END /\ runs["summary_agent"] > 0
          => \A t \in Tasks : runs[t] = 1 /\ Len(state[SlotOf(t)]) = 1

\* the run has ended through the aggregation, with a failed Task in each Phase
C16_Witness ==
    /\ pc = END
    /\ runs["summary_agent"] = 1
    /\ outcome["sentiment_agent"] = "raised"
    /\ outcome["bearish_agent"] = "raised"
    /\ \A k \in Slots : Len(state[k]) = 1

\* a result entry is one of the two variants
IsResultEntry(e) ==
    \/ /\ DOMAIN e = {"status", "content"}
       /\ e.status = "success"
    \/ /\ DOMAIN e = {"status", "error"}
       /\ e.status = "error"

\* C17: every entry of every result slot is a success entry with a content
\* and no error field, or an error entry with an error and no content field.
C17_EntryVariants ==
    \A k \in Slots : \A i \in 1..Len(state[k]) : IsResultEntry(state[k][i])

\* the committed slots hold a success entry with empty content, a success
\* entry with content and an error entry
C17_Witness ==
    /\ pc = "second_phase_join"
    /\ state.news_result = <<[status |-> "success", content |-> ""]>>
    /\ state.sentiment_result[1].status = "success"
    /\ state.sentiment_result[1].content # ""
    /\ state.bullish_result[1].status = "error"
    /\ state.bearish_result[1].status = "error"

\* C18: generate_summary runs at most once in a run, and the state it is
\* invoked with, which is the committed state while it runs, has both
\* first_phase_ready and second_phase_ready true.
C18_AggregationOnceWhenReady ==
    /\ runs["summary_agent"] <= 1
    /\ Invoked("summary_agent")
          => /\ snapshot["summary_agent"].first_phase_ready
             /\ snapshot["summary_agent"].second_phase_ready
    /\ pc = "summary"
          => /\ state.first_phase_ready
             /\ state.second_phase_ready
             /\ state = snapshot["summary_agent"]

\* generate_summary has returned, in a run in which a Task of each Phase failed
C18_Witness ==
    /\ pc = "summary"
    /\ tstatus["summary_agent"] = "returned"
    /\ runs["summary_agent"] = 1
    /\ outcome["news_agent"] = "raised"
    /\ outcome["bullish_agent"] = "raised"

\* C19: only the commit of generate_summary's update changes final_report,
\* and generate_summary runs at most once; the update of no Task and of no
\* join has the key final_report, and start and end return no update.
C19_FinalReportWriter ==
    [][ /\ state'.final_report # state.final_report
              => /\ pc = "summary"
                 /\ pc' = "end"
                 /\ state'.final_report = writes["summary_agent"].update.final_report
        /\ runs'["summary_agent"] <= 1
        /\ \A t \in Tasks : "final_report" \notin Written(t)'
        /\ "final_report" \notin DOMAIN first_phase_join(state)
        /\ "final_report" \notin DOMAIN second_phase_join(state)
        /\ pc \in {"start", "end"} => state' = state ]_vars

\* the run has ended with the report generate_summary returned
C19_Witness ==
    /\ pc = END
    /\ runs["summary_agent"] = 1
    /\ outcome["summary_agent"] = "returned"
    /\ state.final_report # ""
    /\ state.final_report = writes["summary_agent"].update.final_report

\* C20: the update a Task returns, on success and on failure, has one entry
\* for the Task's own slot and apart from that at most the key errors; the
\* commit of a Phase's updates appends that one entry to each slot of the
\* Phase and leaves the other result slots, both readiness flags,
\* final_report, report_path, symbol and keyword as they were; a running
\* Task changes nothing of the state before the commit.
C20_TaskFrame ==
    [][ /\ \A t \in Tasks :
              Written(t)' # {}
                 => /\ SlotOf(t) \in Written(t)'
                    /\ Written(t)' \subseteq {SlotOf(t), "errors"}
                    /\ Len(writes'[t].update[SlotOf(t)]) = 1
        /\ pc \in {"phase1", "phase2"} /\ pc' = pc => state' = state
        /\ pc \in {"phase1", "phase2"} /\ pc' # pc
              => \A k \in DOMAIN state \ {"errors"} :
                    IF \E t \in Range(StepNodes) : SlotOf(t) = k
                    THEN LET t == CHOOSE u \in Range(StepNodes) : SlotOf(u) = k
                         IN  /\ state'[k] = state[k] \o writes[t].update[k]
                             /\ Len(state'[k]) = Len(state[k]) + 1
                    ELSE state'[k] = state[k] ]_vars

\* Phase 2 has been committed with one success and one failure: each of its
\* slots has its one entry, the Phase 1 slots and the flag are as before
C20_Witness ==
    /\ pc = "second_phase_join"
    /\ outcome["bullish_agent"] = "returned"
    /\ outcome["bearish_agent"] = "raised"
    /\ Len(state.bullish_result) = 1
    /\ Len(state.bearish_result) = 1
    /\ \A k \in Phase1Slots : state[k] = snapshot["bullish_agent"][k]
    /\ state.first_phase_ready
    /\ ~state.second_phase_ready

\* the number of entries of a slot whose status is "error"
RECURSIVE ErrorEntries(_)
ErrorEntries(entries) ==
    IF entries = <<>> THEN 0
    ELSE (IF Head(entries).status = "error" THEN 1 ELSE 0) + ErrorEntries(Tail(entries))

RECURSIVE ErrorEntriesIn(_, _)
ErrorEntriesIn(st, ts) ==
    IF ts = <<>> THEN 0
    ELSE ErrorEntries(st[SlotOf(Head(ts))]) + ErrorEntriesIn(st, Tail(ts))

\* C21: at END the length of errors is the number of error entries in the
\* five result slots, plus one if the aggregation operation raised; errors is
\* empty exactly when the five Tasks and the aggregation succeeded.
C21_ErrorsAccounting ==
    pc = END
       => /\ Len(state.errors)
               = ErrorEntriesIn(state, Phase1 \o Phase2)
                   + (IF outcome["summary_agent"] = "raised" THEN 1 ELSE 0)
          /\ state.errors = <<>> <=> \A t \in AgentNodes : outcome[t] = "returned"

\* the run has ended with one failed Task in each Phase and a failed
\* aggregation: three strings in errors
C21_Witness ==
    /\ pc = END
    /\ outcome["news_agent"] = "raised"
    /\ outcome["bearish_agent"] = "raised"
    /\ outcome["summary_agent"] = "raised"
    /\ \A t \in {"sentiment_agent", "fundamental_agent", "bullish_agent"} :
          outcome[t] = "returned"
    /\ Len(state.errors) = 3

\* C22 as stated: a run that completes exits with 0; the exit status is
\* non-zero only when an exception escaped the run, and then it is 1.  A
\* command line without a symbol ends in parser.error with status 2.
C22_ExitCode ==
    [][ /\ pc = END => ExitCode' = 0
        /\ ExitCode' > 0 => pc = "except" /\ ExitCode' = 1 ]_vars

\* C22 amended: a run that completes exits with 0, whatever errors holds; the
\* status is 1 exactly after an exception escaped analyze_futures; it is 2
\* exactly when no symbol was given (and --list-symbols was not), before any
\* run; it is 0 otherwise only for --list-symbols.
C22_ExitCodeWithUsageError ==
    [][ /\ pc = END => ExitCode' = 0
        /\ pc = "except" => ExitCode' = 1
        /\ ExitCode' = 1 => pc = "except"
        /\ ExitCode' = 2
              => /\ pc = "main"
                 /\ ~state.list_symbols
                 /\ state.symbol \in {None, ""}
        /\ ExitCode' = 0 => pc = END \/ (pc = "main" /\ state.list_symbols) ]_vars

\* the process has exited with 0 after a run in which three operations failed
C22_Witness ==
    /\ ExitCode = 0
    /\ runs["end"] = 1
    /\ Len(state.errors) = 3

\* the two calls, running or suspended
Calls == {Current} \cup (IF other = NoRun THEN {} ELSE {other.cfg})

\* the state a call ends with when it runs alone with the outcomes its agents
\* had: its own inputs, one entry per Task, its own errors and report
ResultAlone(c) ==
    LET errs(t) == IF "errors" \in DOMAIN c.writes[t].update
                   THEN c.writes[t].update.errors ELSE <<>>
    IN  /\ \A t \in Tasks : c.state[SlotOf(t)] = c.writes[t].update[SlotOf(t)]
        /\ c.state.errors
             = errs("news_agent") \o errs("sentiment_agent") \o errs("fundamental_agent")
                 \o errs("bullish_agent") \o errs("bearish_agent") \o errs("summary_agent")
        /\ c.state.final_report = c.writes["summary_agent"].update.final_report
        /\ c.state.first_phase_ready /\ c.state.second_phase_ready
        /\ c.state.report_path = ""
        /\ <<c.state.symbol, c.state.keyword>> \in Requests

\* C23: each of two concurrent calls starts from a state of its own with
\* empty sequence fields and false flags; a step of the running call leaves
\* the suspended call as it is, and a switch changes neither; each call ends
\* with the result it has when it runs alone.
C23_RunIsolation ==
    [][ /\ \A c \in Calls' :
              /\ c.pc = "start"
                    => /\ \A k \in AddFields : c.state[k] = <<>>
                       /\ ~c.state.first_phase_ready
                       /\ ~c.state.second_phase_ready
              /\ c.pc = END => ResultAlone(c)
        /\ other # NoRun /\ ActiveId' = ActiveId => other' = other
        /\ other # NoRun /\ ActiveId' # ActiveId
              => other'.cfg = Current /\ Current' = other.cfg
        /\ other = NoRun => Current' = Current \/ other' = NoRun ]_vars

\* both calls have ended, for different symbols: the first with a failed
\* news Task and one string in errors, the second with no error
C23_Witness ==
    /\ other.id = 1
    /\ pc = END
    /\ other.cfg.pc = END
    /\ state.symbol # other.cfg.state.symbol
    /\ state.errors = <<>>
    /\ Len(other.cfg.state.errors) = 1
    /\ other.cfg.outcome["news_agent"] = "raised"

\* C24: from the first node of the graph to the exit of the process, symbol
\* and keyword keep the values app.invoke was given; no update returned by a
\* node has either key.
C24_ImmutableInputs ==
    [][ /\ pc \notin {"main", "analyze_futures", "except"}
              => /\ state'.symbol = state.symbol
                 /\ state'.keyword = state.keyword
        /\ \A t \in AgentNodes :
              writes'[t] # NoWrites
                 => {"symbol", "keyword"} \cap DOMAIN writes'[t].update = {} ]_vars

\* the run has ended with the lower-cased symbol and the defaulted keyword it
\* started with, after its Tasks failed
C24_Witness ==
    /\ pc = END
    /\ state.symbol = "ss"
    /\ state.keyword = "stainless"
    /\ snapshot["news_agent"].symbol = "ss"
    /\ snapshot["summary_agent"].keyword = "stainless"
    /\ Len(state.errors) = 5

\* the first entry of the slot of Task t in the state generate_summary read
SummaryInput(t) == snapshot["summary_agent"][SlotOf(t)][1]

SummaryAsked == "query" \in DOMAIN writes["summary_agent"]

\* C25 as stated: each section of the query is the entry's content on
\* success and the prefixed error on failure.  A success entry with an empty
\* content gives the "not completed" text.
C25_AggregationSubstitution ==
    SummaryAsked
       => \A t \in Tasks :
             LET section == writes["summary_agent"].query.sections[t]
             IN  /\ SummaryInput(t).status = "success"
                       => section = SummaryInput(t).content
                 /\ SummaryInput(t).status = "error"
                       => /\ section = ErrPrefix(t) \o SummaryInput(t).error
                          /\ section # ""

\* C25 amended: a section is the entry's content when the entry is a success
\* with a non-empty content, the "not completed" text when it is a success
\* with an empty content, and the prefixed error message when it is a
\* failure; no section is empty.
C25_SubstitutionWithPlaceholder ==
    SummaryAsked
       => \A t \in Tasks :
             LET section == writes["summary_agent"].query.sections[t]
                 entry == SummaryInput(t)
             IN  /\ entry.status = "success" /\ entry.content # ""
                       => section = entry.content
                 /\ entry.status = "success" /\ entry.content = ""
                       => section = NotCompleted(t)
                 /\ entry.status = "error"
                       => section = ErrPrefix(t) \o entry.error
                 /\ section # ""

\* the aggregation was asked with a failed news section, an empty successful
\* sentiment section and a fundamental section with content
C25_Witness ==
    /\ SummaryAsked
    /\ SummaryInput("news_agent").status = "error"
    /\ SummaryInput("news_agent").error = ""
    /\ SummaryInput("sentiment_agent") = [status |-> "success", content |-> ""]
    /\ writes["summary_agent"].query.sections["sentiment_agent"]
          = NotCompleted("sentiment_agent")
    /\ writes["summary_agent"].query.sections["fundamental_agent"] = "r\n"

\* C26: the data fetch the fundamental Task uses raises on lookup failure:
\* when both upstream sources fail for the identifier, a call of
\* analyze_futures_data ends in an error raised to its caller and returns no
\* report value.
C26_FetchRaisesOnLookupFailure ==
    (/\ state.last.op = "analyze_futures_data"
     /\ state.last.args[2] = "raises"
     /\ state.last.args[3] = "raises")
        => state.last.res.raised

\* the failure texts of the save tools
SaveErrors ==
    {"save failed: " \o kind \o ": " \o why :
        kind \in Savers, why \in {"OSError: makedirs", "OSError: open"}}

\* C27: no save_*_to_markdown call raises past the tool: whenever making the
\* reports directory or writing the file fails, the call returns an error
\* string, and a call that meets no failure returns the saved path.
C27_SaveNeverRaises ==
    state.last.op = "save_to_markdown"
        => /\ ~state.last.res.raised
           /\ (state.last.args[3] = "raises" \/ state.last.args[4] = "raises")
                 <=> state.last.res.value \in SaveErrors

\* the summary tool could not make the reports directory and returned the text
C27_Witness ==
    /\ state.last.op = "save_to_markdown"
    /\ state.last.args[1] = "summary"
    /\ state.last.args[3] = "raises"
    /\ ~state.last.res.raised
    /\ state.last.res.value \in SaveErrors

\* the strings web_search returns when it cannot search
SearchExplanations ==
    {"mock results: " \o q : q \in Queries}
        \cup {"error: no ZHIPU_API_KEY", "search error: backend"}

\* C28: web_search never raises, and when the search package is missing, the
\* API key is missing or the backend call fails it returns an explanatory
\* string.
C28_SearchDegradesGracefully ==
    state.last.op = "web_search"
        => /\ ~state.last.res.raised
           /\ (\/ ~state.last.args[2]
               \/ state.last.args[3] \in {None, ""}
               \/ state.last.args[4] = "raises")
                 => state.last.res.value \in SearchExplanations

\* package and key are there, the backend call raised, the text came back
C28_Witness ==
    /\ state.last.op = "web_search"
    /\ state.last.args[2]
    /\ state.last.args[3] = "key"
    /\ state.last.args[4] = "raises"
    /\ ~state.last.res.raised
    /\ state.last.res.value = "search error: backend"

\* the Tasks whose edges lead into a Barrier node
Incoming(join) == IF join = "first_phase_join" THEN Range(Phase1) ELSE Range(Phase2)

\* C29: each Barrier node is executed once per run and its Router decides
\* once: first_phase_join and second_phase_join run only when every Task
\* with an edge into them has been committed, never once per finished Task;
\* a Router's decision, once taken, is not taken again; a run that has ended
\* has executed first_phase_join once, and second_phase_join once if Router 1
\* dispatched.
C29_BarrierOnce ==
    /\ [](\A join \in {"first_phase_join", "second_phase_join"} :
            /\ runs[join] <= 1
            /\ pc = join => /\ runs[join] = 0
                            /\ \A t \in Incoming(join) : tstatus[t] = "committed")
    /\ [](pc = "route_and_dispatch_second"
            => runs["first_phase_join"] = 1 /\ routed[1] = "none")
    /\ [](pc = "route_second_phase"
            => runs["second_phase_join"] = 1 /\ routed[2] = "none")
    /\ [](pc = END
            => /\ runs["first_phase_join"] = 1 /\ routed[1] # "none"
               /\ routed[1] = "dispatch"
                     => runs["second_phase_join"] = 1 /\ routed[2] # "none")
    /\ [][\A i \in 1..2 : routed[i] # "none" => routed'[i] = routed[i]]_vars

\* a run has ended after both Barriers ran and both Routers dispatched
C29_Witness ==
    /\ pc = END
    /\ runs["first_phase_join"] = 1
    /\ runs["second_phase_join"] = 1
    /\ routed[1] = "dispatch"
    /\ routed[2] = "dispatch"

\* the nodes that have been sent to and have not been committed yet
Sent == {t \in AgentNodes : InStep(t)}

\* C30: when the first readiness check is true Router 1 returns exactly two
\* Sends, one to bullish_agent and one to bearish_agent, and the step it
\* starts holds these two Tasks and not summary_agent; when the second
\* check is true Router 2 routes to summary_agent, and the step it starts
\* holds summary_agent alone.
C30_RouterTargets ==
    /\ [](pc = "route_and_dispatch_second" /\ state.first_phase_ready
            => LET r == route_and_dispatch_second(state)
               IN  /\ Len(r) = 2
                   /\ {r[i].node : i \in 1..2} = {"bullish_agent", "bearish_agent"})
    /\ [](pc = "route_second_phase" /\ state.second_phase_ready
            => Router2Target(route_second_phase(state)) = "summary_agent")
    /\ [][pc = "route_and_dispatch_second" /\ state.first_phase_ready
            => /\ pc' = "phase2"
               /\ Sent' = {"bullish_agent", "bearish_agent"}
               /\ ~Invoked("summary_agent")']_vars
    /\ [][pc = "route_second_phase" /\ state.second_phase_ready
            => /\ pc' = "summary"
               /\ Sent' = {"summary_agent"}]_vars

\* Router 2 has just sent to summary_agent, after Router 1 sent to both
\* Phase 2 Tasks
C30_Witness ==
    /\ pc = "summary"
    /\ tstatus["summary_agent"] = "sent"
    /\ routed = [i \in 1..2 |-> "dispatch"]
    /\ runs["bullish_agent"] = 1
    /\ runs["bearish_agent"] = 1

\* C31: in every reachable state second_phase_ready implies
\* first_phase_ready, and a non-empty bullish_result or bearish_result
\* implies first_phase_ready.
C31_FlagImplications ==
    /\ state.second_phase_ready => state.first_phase_ready
    /\ Len(state.bullish_result) > 0 \/ Len(state.bearish_result) > 0
          => state.first_phase_ready

\* the second join has set its flag over the results of both Phase 2 Tasks
C31_Witness ==
    /\ pc = "route_second_phase"
    /\ state.second_phase_ready
    /\ state.first_phase_ready
    /\ Len(state.bullish_result) > 0
    /\ Len(state.bearish_result) > 0

\* C32: the readiness flags are monotonic within a run: no step takes
\* first_phase_ready or second_phase_ready from true back to false.
C32_FlagsMonotonic ==
    [][/\ state.first_phase_ready => state'.first_phase_ready
       /\ state.second_phase_ready => state'.second_phase_ready]_vars

\* the run has ended through the end node with both flags still true
C32_Witness ==
    /\ pc = END
    /\ runs["end"] = 1
    /\ runs["first_phase_join"] = 1
    /\ runs["second_phase_join"] = 1
    /\ state.first_phase_ready
    /\ state.second_phase_ready

\* a Router is about to take its fail-open branch
FailOpen(i) ==
    \/ i = 1 /\ pc = "route_and_dispatch_second" /\ route_and_dispatch_second(state) = END
    \/ i = 2 /\ pc = "route_second_phase" /\ route_second_phase(state) = "wait"

\* C33: a Router that takes the fail-open branch ends the run in that very
\* step: the state it returns is the state the Router saw, slots and errors
\* included, no Task is sent to, and once the run has ended this way nothing
\* happens any more, so that neither a later Task nor generate_summary nor
\* end_workflow has run and final_report is still empty.
C33_FailOpenEndsRun ==
    /\ [][\A i \in 1..2 : FailOpen(i)
            => /\ pc' = END
               /\ routed'[i] = END
               /\ state' = state
               /\ tstatus' = tstatus
               /\ runs' = runs]_vars
    /\ [][pc # END]_vars
    /\ [](\A i \in 1..2 : routed[i] = END
            => /\ pc = END
               /\ runs["summary_agent"] = 0
               /\ runs["end"] = 0
               /\ ~Invoked("summary_agent")
               /\ state.final_report = ""
               /\ i = 1 => \A t \in Range(Phase2) : ~Invoked(t))

\* Router 2 found bearish_result empty and ended the run, with the bullish
\* entry and the errors still in the state
C33_Witness ==
    /\ pc = END
    /\ routed[2] = END
    /\ Len(state.bullish_result) > 0
    /\ Len(state.bearish_result) = 0
    /\ state.final_report = ""
    /\ runs["end"] = 0

\* C34: no node writes report_path: the update of no node has the key, and
\* in every state of a run, the final one included, report_path is the empty
\* string given at creation.
C34_ReportPathNeverWritten ==
    /\ state.report_path = ""
    /\ \A t \in AgentNodes :
          writes[t] # NoWrites /\ ~writes[t].raised
             => "report_path" \notin DOMAIN writes[t].update
    /\ "report_path" \notin
          DOMAIN first_phase_join(state) \cup DOMAIN second_phase_join(state)

\* the run has ended with a report in final_report and none in report_path
C34_Witness ==
    /\ pc = END
    /\ runs["end"] = 1
    /\ state.final_report # ""
    /\ state.report_path = ""

\* the state with every slot cut down to its first entry
FirstEntries(st) ==
    [k \in DOMAIN st |->
        IF k \in Slots /\ Len(st[k]) > 1 THEN <<st[k][1]>> ELSE st[k]]

HasQuery(t) == writes[t] # NoWrites /\ "query" \in DOMAIN writes[t]

\* C35: the readers use the first entry of a slot only: the query a Phase 2
\* Task hands to its agent and the query generate_summary hands to the
\* summary agent are the ones they would build from the state with every
\* slot cut down to its first entry, so entries appended after the first
\* change neither.
C35_FirstEntryOnly ==
    /\ \A t \in Range(Phase2) :
          HasQuery(t) => writes[t].query = Phase2Query(FirstEntries(snapshot[t]))
    /\ HasQuery("summary_agent")
          => writes["summary_agent"].query
                = SummaryQuery(FirstEntries(snapshot["summary_agent"]))

\* generate_summary and both Phase 2 Tasks have built their queries from a
\* state whose news slot holds a success followed by a failure
C35_Witness ==
    /\ HasQuery("summary_agent")
    /\ HasQuery("bullish_agent")
    /\ HasQuery("bearish_agent")
    /\ snapshot["bullish_agent"].news_result = <<okEntry, errEntry>>
    /\ snapshot["summary_agent"].news_result = <<okEntry, errEntry>>
    /\ writes["bullish_agent"].query.sections["news_agent"] = "r\n"
    /\ writes["summary_agent"].query.sections["news_agent"] = "r\n"

\* SYMBOL_TO_CHINESE restricted to the symbols tried
MappedSymbols == {"ss", "cu"}

MappedName(symbol) == IF symbol = "ss" THEN "stainless" ELSE "copper"

FetchCall == state'.last.op = "get_recent_30_days"

\* C37: a call of get_recent_30_days with use_cache = True asks an upstream
\* source if and only if no earlier fetch on the same analyzer has
\* succeeded; a call that asks both sources in vain ends in an error and
\* leaves the cache as it was, which for a call with use_cache = True is
\* unset; the fallback source is asked only after the primary source has
\* been asked and has failed.
C37_AnalyzerCaching ==
    /\ [][FetchCall /\ state'.last.args[1]
            => (state'.last.res.fetched # <<>> <=> ~state.fetch_ok)]_vars
    /\ [][FetchCall /\ state'.last.res.fetched # <<>>
             /\ state'.last.args[2] = "raises" /\ state'.last.args[3] = "raises"
            => /\ state'.last.res.raised
               /\ state'.analyzer.data_cache = state.analyzer.data_cache
               /\ state'.last.args[1] => state'.analyzer.data_cache = None]_vars
    /\ [][FetchCall /\ state'.last.res.raised
            => state'.last.args[2] = "raises" /\ state'.last.args[3] = "raises"]_vars
    /\ [](state.last.op = "get_recent_30_days"
            => /\ state.last.res.fetched \in {<<>>, <<"sina">>, <<"sina", "em">>}
               /\ state.last.res.fetched = <<"sina", "em">>
                     <=> (state.last.res.fetched # <<>> /\ state.last.args[2] = "raises"))
    /\ [](state.fetch_ok <=> state.analyzer.data_cache # None)

\* after a fetch that succeeded on the fallback source, a call with
\* use_cache = True returned the cached frame without asking a source
C37_Witness ==
    /\ state.last.op = "get_recent_30_days"
    /\ state.last.args[1]
    /\ state.fetch_ok
    /\ state.before = Frame("em", "rows")
    /\ state.last.res.fetched = <<>>
    /\ state.last.res.value = Frame("em", "rows")

\* both sources failed on a call with use_cache = True: the call raised and
\* the cache is still unset
C37_WitnessBothFail ==
    /\ state.last.op = "get_recent_30_days"
    /\ state.last.args = <<TRUE, "raises", "raises">>
    /\ state.last.res.raised
    /\ state.analyzer.data_cache = None

====
